---- MODULE Spec2Model ----
(***************************************************************************)
(* The Playlist component of collab-playlist (src/src/app.rs): the fetch   *)
(* and name-resolution cycle of `raw_data` and the aggregation closure     *)
(* `data` that turns (playlist, user_names) into a PlaylistInfo.           *)
(*                                                                         *)
(* Conventions.                                                            *)
(*   Option<T>   : <<>> is None, <<x>> is Some(x).                         *)
(*   TimeDelta   : an integer (exact arithmetic; a track lasts seconds, so *)
(*                 the i64 range of chrono is never approached).           *)
(*   DateTime    : an integer number of ticks, TicksPerDay ticks a day.    *)
(*   f64         : [nan, num, den], an exact reduced fraction num/den, or  *)
(*                 NaN for 0.0 / 0.0.  Rounding is not modelled.           *)
(*   track names : the position of the item in the playlist, so that an    *)
(*                 output entry identifies the input item it came from.    *)
(***************************************************************************)
EXTENDS Integers, Sequences, FiniteSets, TLC

VARIABLES
    id,        \* the route parameter "id" the fetcher is started with
    pc,        \* position of the raw_data fetcher future
    failure,   \* the error the fetcher met, "none" while it met none
    fetched,   \* Option: the fetcher's local `playlist`, until it is moved out
    lookups,   \* user id -> Option: the futures handed to join_all and their output
    raw_data,  \* Option<(playlist, user_names)>: the resource's value
    now,       \* the reading of Utc::now()
    tie,       \* how this build's sort_unstable_by orders equal keys
    out,       \* Option: what the latest call of `data` returned
    prev,      \* Option: what the call of `data` before that returned
    oauth_flow, \* the OAuthFlow persisted in local storage under "spotify_token"
    route,     \* the path the router shows
    pending,   \* the Callback fetchers awaiting get_token, oldest first
    logins,    \* the number of login clicks so far
    last       \* the latest login click or Callback step, and the flow state before it

playlistVars == <<id, pc, failure, fetched, lookups, raw_data, now, tie, out, prev>>

authVars == <<oauth_flow, route, pending, logins, last>>

vars == <<playlistVars, authVars>>

(***************************** bounds **************************************)
MaxItems == 3

MaxDur == 2

TicksPerDay == 2

MaxAgeDays == 201

MaxLogins == 3

MaxPending == 2

(***************************** constants ***********************************)
\* app.rs:175  age.num_days() as f64 / 200.0
HorizonDays == 200

\* app.rs:286  track.age > 0.99, as the fraction 99 / 100
StalePercent == 99

None == <<>>

Some(x) == <<x>>

UserIds == {"a", "b"}

PlaylistName == "mix"

(***************************** f64 *****************************************)
Abs(x) == IF x < 0 THEN -x ELSE x

RECURSIVE GCD(_, _)
GCD(a, b) == IF b = 0 THEN a ELSE GCD(b, a % b)

NaN == [nan |-> TRUE, num |-> 0, den |-> 0]

Frac(n, d) ==
    LET g == GCD(Abs(n), d)
    IN  [nan |-> FALSE, num |-> n \div g, den |-> d \div g]

\* a as f64 / b as f64, for b >= 0: 0.0 / 0.0 is NaN, x / 0.0 is an infinity
\* (den = 0), anything else the quotient.
FDiv(a, b) ==
    IF b = 0
    THEN IF a = 0 THEN NaN ELSE [nan |-> FALSE, num |-> (IF a > 0 THEN 1 ELSE -1), den |-> 0]
    ELSE Frac(a, b)

FLess(x, y) == ~x.nan /\ ~y.nan /\ x.num * y.den < y.num * x.den

\* f64::clamp(lo, hi): NaN stays NaN
FClamp(x, lo, hi) ==
    IF x.nan THEN x
    ELSE IF FLess(x, lo) THEN lo
    ELSE IF FLess(hi, x) THEN hi
    ELSE x

FZero == Frac(0, 1)

FOne == Frac(1, 1)

(***************************** helpers *************************************)
RECURSIVE SumSeq(_)
SumSeq(s) == IF s = <<>> THEN 0 ELSE Head(s) + SumSeq(Tail(s))

\* the sequence s as a stored Vec: its elements are computed once
Vec(s) == SubSeq(s, 1, Len(s))

RECURSIVE Concat(_)
Concat(ss) == IF ss = <<>> THEN <<>> ELSE Head(ss) \o Concat(Tail(ss))

\* every order a HashMap can iterate the keys S in
Orders(S) ==
    {f \in [1..Cardinality(S) -> S] : \A x \in S : \E i \in DOMAIN f : f[i] = x}

(***************************** input ***************************************)
\* a match on Some(_) in place of Some(PlayableItem::Track(track))
IsAnyPlayable(item) == item.track # None

\* Some(PlayableItem::Track(track)): the only items the loop keeps
IsTrack(item) == item.track = Some("Track")

Included(items) == {i \in DOMAIN items : IsTrack(items[i])}

\* the distinct contributor ids of the playlist, over every item
UsersOf(items) ==
    {items[i].added_by[1] : i \in {j \in DOMAIN items : items[j].added_by # None}}

(***************************** aggregation *********************************)
\* total_duration accumulated ahead of the match, over every item
TotalDurationOfAll(items) == SumSeq([i \in DOMAIN items |-> items[i].duration])

\* total_duration += track.duration, over the included items
TotalDuration(items) ==
    SumSeq([i \in DOMAIN items |-> IF IsTrack(items[i]) THEN items[i].duration ELSE 0])

\* the keys of user_id_to_track: item.added_by.map(|u| u.id) of the included items
GroupKeys(items) == {items[i].added_by : i \in Included(items)}

\* user_id_to_track[k]: the included items added by k, in playlist order
GroupOf(items, k) ==
    SelectSeq([i \in DOMAIN items |-> i],
              LAMBDA i : IsTrack(items[i]) /\ items[i].added_by = k)

\* TimeDelta::num_days: whole days, truncated towards zero
NumDays(d) == IF d >= 0 THEN d \div TicksPerDay ELSE -((-d) \div TicksPerDay)

\* the age without its clamp
AgeUnclamped(t, added_at) ==
    LET since == t - (IF added_at = None THEN t ELSE added_at[1])
    IN  FDiv(NumDays(since), HorizonDays)

\* now.signed_duration_since(added_at.unwrap_or(now)), then
\* (age.num_days() as f64 / 200.0).clamp(0.0, 1.0)
Age(t, added_at) ==
    LET since == t - (IF added_at = None THEN t ELSE added_at[1])
    IN  FClamp(FDiv(NumDays(since), HorizonDays), FZero, FOne)

\* RandomColor::new().seed(..).to_rgb_array(): decided by the seed alone, the
\* contributor id or "" for the null contributor
Color(user_id) == [seed |-> IF user_id = None THEN "" ELSE user_id[1]]

\* the sort left out
Unsorted(s, key, t) == s

\* slice::sort_unstable_by on s with the keys key: ascending by key; the
\* order among equal keys is not promised, and is what this build does (t)
SortUnstableBy(s, key, t) ==
    LET n == Len(s)
        Before(j, i) ==
            \/ key[j] < key[i]
            \/ key[j] = key[i] /\ (IF t = "keep" THEN j < i ELSE j > i)
        rank(i) == 1 + Cardinality({j \in 1..n : Before(j, i)})
    IN  Vec([k \in 1..n |-> s[CHOOSE i \in 1..n : rank(i) = k]])

\* the TrackInfo of item i
MakeTrackInfo(items, i, total, color, t) ==
    [name          |-> items[i].name,
     duration      |-> items[i].duration,
     relative_size |-> FDiv(items[i].duration, total),
     color         |-> color,
     age           |-> Age(t, items[i].added_at)]

\* user_tracks: the group mapped to TrackInfo, then sorted by duration
UserTracks(items, k, total, t, pol) ==
    LET g == GroupOf(items, k)
        unsorted == Vec([j \in DOMAIN g |-> MakeTrackInfo(items, g[j], total, Color(k), t)])
    IN  SortUnstableBy(unsorted, Vec([j \in DOMAIN g |-> unsorted[j].duration]), pol)

\* user_id.and_then(|id| user_names.get(&id).cloned()).unwrap_or("Unknow")
UserName(user_id, user_names) ==
    IF user_id # None /\ user_id[1] \in DOMAIN user_names
    THEN user_names[user_id[1]]
    ELSE "Unknow"

\* user_total_duration: the sum of the group's durations
UserTotalDuration(user_tracks) ==
    SumSeq([j \in DOMAIN user_tracks |-> user_tracks[j].duration])

MakeUserInfo(k, user_tracks, total, user_names) ==
    [name             |-> UserName(k, user_names),
     relative_size    |-> FDiv(UserTotalDuration(user_tracks), total),
     total_duration   |-> UserTotalDuration(user_tracks),
     amount_of_tracks |-> Len(user_tracks),
     color            |-> Color(k)]

\* one element of `data`: (user, user_tracks); key records the HashMap key
\* the element was built from, which the output itself does not carry
GroupEntry(items, k, total, user_names, t, pol) ==
    LET ut == UserTracks(items, k, total, t, pol)
    IN  [key |-> k, user |-> MakeUserInfo(k, ut, total, user_names), user_tracks |-> ut]

\* the elements of `data`, by the HashMap key each is built from
GroupEntries(playlist, user_names, t, pol) ==
    [k \in GroupKeys(playlist.items) |->
        GroupEntry(playlist.items, k, TotalDuration(playlist.items), user_names, t, pol)]

\* the closure `data` on Some((playlist, user_names)), the HashMap iterating
\* its keys in `order`: entries collected in that order, sorted by
\* total_duration and flattened
Aggregate(playlist, entries, pol, order) ==
    LET mapped == Vec([j \in DOMAIN order |-> entries[order[j]]])
        data   == SortUnstableBy(mapped,
                      Vec([j \in DOMAIN mapped |-> mapped[j].user.total_duration]), pol)
    IN  [info |-> [name           |-> playlist.name,
                   total_duration |-> TotalDuration(playlist.items),
                   tracks         |-> Concat([j \in DOMAIN data |-> data[j].user_tracks]),
                   users          |-> [j \in DOMAIN data |-> data[j].user]],
         keys |-> [j \in DOMAIN data |-> data[j].key]]

\* what a call of `data` can return
DataResults ==
    IF raw_data = None
    THEN {None}
    ELSE LET playlist == raw_data[1].playlist
             entries  == GroupEntries(playlist, raw_data[1].user_names, now, tie)
         IN  {Some(Aggregate(playlist, entries, tie, order)) :
                 order \in Orders(GroupKeys(playlist.items))}

\* the view's cobweb test: track.age > 0.99
Cobweb(track) == FLess(Frac(StalePercent, 100), track.age)

(***************************** name resolution *****************************)
\* what spotify.user(id) can answer: a display name, no display name, an error
LookupAnswers == {"named", "unnamed", "error"}

\* the pair's second component for one lookup
ResolvedName(user_id, answer) ==
    CASE answer = "error"   -> "Faild to get user"
      [] answer = "named"   -> "name of " \o user_id
      [] answer = "unnamed" -> user_id

(***************************** inputs **************************************)
Options(S) == {None} \cup {Some(x) : x \in S}

\* the playlist whose items have the shapes f[1], f[2], ..; a track's name is
\* its position
MakePlaylist(f) ==
    [name |-> PlaylistName, items |-> [i \in DOMAIN f |-> [name |-> i] @@ f[i]]]

\* items that differ in kind, duration and contributor
GroupingShapes ==
    [track : {Some("Track")}, duration : 0..MaxDur, added_by : Options(UserIds),
     added_at : {None}]
    \cup {[track |-> None, duration |-> 1, added_by |-> None, added_at |-> None],
          [track |-> Some("Episode"), duration |-> 1, added_by |-> Some("a"),
           added_at |-> None]}

\* the instants at most MaxAgeDays days before t, and one day after it
AgeInstants(t) == (t - MaxAgeDays * TicksPerDay) .. (t + TicksPerDay)

\* the instants `now` is read at
Nows == {1000}

\* single tracks that differ in when they were added
AgeShapes(t) ==
    [track : {Some("Track")}, duration : {1}, added_by : {None},
     added_at : Options(AgeInstants(t))]

\* items that differ in kind and contributor
FetchShapes ==
    [track : {Some("Track")}, duration : {1}, added_by : Options(UserIds),
     added_at : {None}]
    \cup {[track |-> None, duration |-> 1, added_by |-> None, added_at |-> None],
          [track |-> Some("Episode"), duration |-> 1, added_by |-> Some("a"),
           added_at |-> None]}

(***************************** OAuth flow ********************************)
\* enum OAuthFlow
FirstVisit == [kind |-> "FirstVisit"]

RequestedUserAuthorization(verifier) ==
    [kind |-> "RequestedUserAuthorization", verifier |-> verifier]

GotToken(token) == [kind |-> "GotToken", token |-> token]

\* the signal oauth_flow_state: the flow's variant without its payload
OAuthFlowState(flow) == flow.kind

\* the signal spotify: the client built from the persisted flow
Spotify(flow) ==
    CASE flow.kind = "FirstVisit" -> [verifier |-> None, token |-> None]
      [] flow.kind = "RequestedUserAuthorization" ->
             [verifier |-> Some(flow.verifier), token |-> None]
      [] flow.kind = "GotToken" -> [verifier |-> None, token |-> Some(flow.token)]

\* a Callback that goes on to the token exchange whatever the flow state is
CallbackProceedsAlways(state) == TRUE

\* the match of Callback: only RequestedUserAuthorization goes on to get_token
CallbackProceeds(state) == state = "RequestedUserAuthorization"

\* get_token: None without a "code" query parameter or when request_token
\* fails, else the token the client then holds
GetToken(has_code, request_ok, spotify) ==
    IF has_code /\ request_ok THEN Some([issued_for |-> spotify.verifier]) ELSE None

\* no login click and no Callback step yet
NoEvent == [op |-> "none", before |-> FirstVisit]

\* the OAuth side as main() finds it in a fresh browser, at path ""
AuthAtRest ==
    /\ oauth_flow = FirstVisit
    /\ route = ""
    /\ pending = <<>>
    /\ logins = 0
    /\ last = NoEvent

(***************************** the engine **********************************)
\* the answers the lookups got in the cycle that filled raw_data
EngineAnswers == [u \in UserIds |-> IF u = "a" THEN "named" ELSE "error"]

\* the output of the async block of one lookup: (user_id, name); answer
\* records what spotify.user answered
LookupOutput(user_id, answer) ==
    [answer |-> answer, pair |-> <<user_id, ResolvedName(user_id, answer)>>]

\* .collect::<HashMap<_, _>>() of the pairs of the completed lookups
CollectNames(ls) ==
    [u \in {v \in DOMAIN ls : ls[v] # None} |-> ls[u][1].pair[2]]

\* raw_data holds a fetched playlist and the name map resolved for it
InitEngine ==
    /\ id = "valid"
    /\ pc = "resolved"
    /\ failure = "none"
    /\ now \in Nows
    /\ tie \in {"keep", "reverse"}
    /\ \E p \in {"grouping", "age"} :
         \E m \in 0..(IF p = "age" THEN 1 ELSE MaxItems) :
           \E f \in [1..m -> IF p = "age" THEN AgeShapes(now) ELSE GroupingShapes] :
             LET pl == MakePlaylist(f)
                 ls == [u \in UsersOf(pl.items) |-> Some(LookupOutput(u, EngineAnswers[u]))]
             IN  /\ fetched = None
                 /\ lookups = ls
                 /\ raw_data = Some([playlist |-> pl, user_names |-> CollectNames(ls)])
    /\ out = None
    /\ prev = None
    /\ AuthAtRest

\* one call of the closure `data`
Data ==
    /\ pc # "panicked"
    /\ \E r \in DataResults :
         /\ out' = Some(r)
         /\ prev' = out
    /\ UNCHANGED <<id, pc, failure, fetched, lookups, raw_data, now, tie>>
    /\ UNCHANGED authVars

NextEngine == Data

Spec == InitEngine /\ [][NextEngine]_vars

(***************************** the fetch cycle *****************************)
\* the component is built: the resource has no value and its fetcher is
\* about to run with the route's id
InitFetch ==
    /\ id \in {"valid", "malformed"}
    /\ pc = "start"
    /\ failure = "none"
    /\ fetched = None
    /\ lookups = <<>>
    /\ raw_data = None
    /\ now \in Nows
    /\ tie \in {"keep", "reverse"}
    /\ out = None
    /\ prev = None
    /\ AuthAtRest

\* PlaylistId::from_id(id).unwrap(), then spotify.playlist(id, None, None) is awaited
StartFetch ==
    /\ pc = "start"
    /\ IF id = "malformed"
       THEN pc' = "panicked" /\ failure' = "invalid id"
       ELSE pc' = "fetching" /\ failure' = failure
    /\ UNCHANGED <<id, fetched, lookups, raw_data, now, tie, out, prev>>
    /\ UNCHANGED authVars

\* spotify.playlist(..).await.unwrap() on Err
PlaylistError ==
    /\ pc = "fetching"
    /\ pc' = "panicked"
    /\ failure' = "request failed"
    /\ UNCHANGED <<id, fetched, lookups, raw_data, now, tie, out, prev>>
    /\ UNCHANGED authVars

\* spotify.playlist(..).await.unwrap() on Ok(playlist): the users set is
\* built and one lookup per user is handed to join_all
PlaylistOk ==
    /\ pc = "fetching"
    /\ \E m \in 0..MaxItems :
         \E f \in [1..m -> FetchShapes] :
           LET pl == MakePlaylist(f)
           IN  /\ fetched' = Some(pl)
               /\ lookups' = [u \in UsersOf(pl.items) |-> None]
    /\ pc' = "resolving"
    /\ UNCHANGED <<id, failure, raw_data, now, tie, out, prev>>
    /\ UNCHANGED authVars

\* spotify.user(user_id).await of one pending lookup completes
LookupDone ==
    /\ pc = "resolving"
    /\ \E u \in DOMAIN lookups :
         /\ lookups[u] = None
         /\ \E answer \in LookupAnswers :
              lookups' = [lookups EXCEPT ![u] = Some(LookupOutput(u, answer))]
    /\ UNCHANGED <<id, pc, failure, fetched, raw_data, now, tie, out, prev>>
    /\ UNCHANGED authVars

\* a join that is ready as soon as one future has completed
JoinAnyReady == \E u \in DOMAIN lookups : lookups[u] # None

\* join_all(..).await is ready: every future it holds has completed
JoinAllReady == \A u \in DOMAIN lookups : lookups[u] # None

\* the fetcher returns (playlist, user_names) and the resource takes the value
Resolve ==
    /\ pc = "resolving"
    /\ JoinAllReady
    /\ raw_data' = Some([playlist |-> fetched[1], user_names |-> CollectNames(lookups)])
    /\ fetched' = None
    /\ pc' = "resolved"
    /\ UNCHANGED <<id, failure, lookups, now, tie, out, prev>>
    /\ UNCHANGED authVars

NextFetch ==
    \/ StartFetch
    \/ PlaylistError
    \/ PlaylistOk
    \/ LookupDone
    \/ Resolve
    \/ Data

SpecFetch == InitFetch /\ [][NextFetch]_vars

(***************************** the OAuth flow ******************************)
InitAuth ==
    /\ id = "valid"
    /\ pc = "start"
    /\ failure = "none"
    /\ fetched = None
    /\ lookups = <<>>
    /\ raw_data = None
    /\ now \in Nows
    /\ tie = "keep"
    /\ out = None
    /\ prev = None
    /\ AuthAtRest

\* the user opens /login
VisitLogin ==
    /\ route # "/login"
    /\ route' = "/login"
    /\ last' = [op |-> "visit", before |-> oauth_flow]
    /\ UNCHANGED <<oauth_flow, pending, logins>>
    /\ UNCHANGED playlistVars

\* the user opens "": App's effect sends every state but GotToken to /login
VisitApp ==
    /\ route' = (IF OAuthFlowState(oauth_flow) = "GotToken" THEN "" ELSE "/login")
    /\ route' # route
    /\ last' = [op |-> "visit", before |-> oauth_flow]
    /\ UNCHANGED <<oauth_flow, pending, logins>>
    /\ UNCHANGED playlistVars

\* Login's click handler: a fresh verifier is persisted, then the window
\* is sent to the authorize url
LoginClick ==
    /\ route = "/login"
    /\ logins < MaxLogins
    /\ logins' = logins + 1
    /\ oauth_flow' = RequestedUserAuthorization(logins + 1)
    /\ last' = [op |-> "login click", before |-> oauth_flow]
    /\ UNCHANGED <<route, pending>>
    /\ UNCHANGED playlistVars

\* /callback is opened, with or without a code: Callback's fetcher runs up
\* to the await of get_token, or navigates to /login at once
CallbackVisit ==
    /\ Len(pending) < MaxPending
    /\ \E has_code \in BOOLEAN :
         IF CallbackProceeds(OAuthFlowState(oauth_flow))
         THEN /\ pending' = Append(pending, [has_code |-> has_code,
                                             spotify  |-> Spotify(oauth_flow),
                                             read     |-> OAuthFlowState(oauth_flow)])
              /\ route' = "/callback"
              /\ last' = [op |-> "callback awaits", before |-> oauth_flow]
         ELSE /\ pending' = pending
              /\ route' = "/login"
              /\ last' = [op |-> "callback refused", before |-> oauth_flow]
    /\ UNCHANGED <<oauth_flow, logins>>
    /\ UNCHANGED playlistVars

\* get_token of one pending Callback returns: Some(token) is persisted as
\* GotToken and "/" is shown, None navigates to /login
CallbackDone ==
    \E i \in DOMAIN pending :
      \E request_ok \in BOOLEAN :
        LET got == GetToken(pending[i].has_code, request_ok, pending[i].spotify)
        IN  /\ pending' = SubSeq(pending, 1, i - 1) \o SubSeq(pending, i + 1, Len(pending))
            /\ IF got # None
               THEN /\ oauth_flow' = GotToken(got[1])
                    /\ route' = ""
                    /\ last' = [op |-> "callback token", before |-> oauth_flow,
                                read |-> pending[i].read]
               ELSE /\ oauth_flow' = oauth_flow
                    /\ route' = "/login"
                    /\ last' = [op |-> "callback failed", before |-> oauth_flow,
                                read |-> pending[i].read]
            /\ UNCHANGED logins
            /\ UNCHANGED playlistVars

NextAuth ==
    \/ VisitLogin
    \/ VisitApp
    \/ LoginClick
    \/ CallbackVisit
    \/ CallbackDone

SpecAuth == InitAuth /\ [][NextAuth]_vars

(***************************** claims **************************************)
\* the aggregation results at hand: of the latest call of `data` and of the one before
Outputs == {x[1][1] : x \in {o \in {out, prev} : o # None /\ o[1] # None}}

\* the items of the playlist raw_data holds
InputItems == raw_data[1].playlist.items

\* the number of output tracks ahead of the run of user u
RunStart(info, u) == SumSeq([v \in 1..(u - 1) |-> info.users[v].amount_of_tracks])

\* the run of user u: its amount_of_tracks tracks from RunStart on
RunOf(info, u) ==
    [j \in 1..info.users[u].amount_of_tracks |-> info.tracks[RunStart(info, u) + j]]

\* C1: the output holds one TrackInfo per input item that is a
\* PlayableItem::Track and none for any other item, the amount_of_tracks of
\* the users add up to that number, and the tracks are the concatenation, in
\* users order, of one run per user, of amount_of_tracks tracks that were all
\* added by that user's contributor; no contributor has two runs.
C1_Partition ==
    \A o \in Outputs :
        LET info   == o.info
            items  == InputItems
            kept   == {i \in DOMAIN items : items[i].track = <<"Track">>}
        IN  /\ Len(info.tracks) = Cardinality(kept)
            /\ {info.tracks[j].name : j \in DOMAIN info.tracks} = kept
            /\ SumSeq([u \in DOMAIN info.users |-> info.users[u].amount_of_tracks])
                 = Cardinality(kept)
            /\ info.tracks = Concat([u \in DOMAIN info.users |-> RunOf(info, u)])
            /\ \A u \in DOMAIN info.users :
                 \A j \in DOMAIN RunOf(info, u) :
                    items[RunOf(info, u)[j].name].added_by = o.keys[u]
            /\ \A u, v \in DOMAIN info.users : o.keys[u] = o.keys[v] => u = v

\* C1's case: an output with two runs over a playlist that also holds an item
\* that is no track
C1_Witness ==
    \E o \in Outputs :
        /\ \E i \in DOMAIN InputItems : InputItems[i].track # <<"Track">>
        /\ Len(o.info.users) = 2
        /\ Len(o.info.tracks) = 2

\* C2: when total_duration is greater than 0 it is the sum of the durations
\* of the output tracks and the sum of the total_duration of the output users.
C2_Conservation ==
    \A o \in Outputs :
        o.info.total_duration > 0 =>
            /\ o.info.total_duration
                 = SumSeq([j \in DOMAIN o.info.tracks |-> o.info.tracks[j].duration])
            /\ o.info.total_duration
                 = SumSeq([u \in DOMAIN o.info.users |-> o.info.users[u].total_duration])

\* C2's case: a positive total over two users, beside an item that is no track
C2_Witness ==
    \E o \in Outputs :
        /\ o.info.total_duration > 1
        /\ Len(o.info.users) = 2
        /\ \E i \in DOMAIN InputItems : InputItems[i].track = <<"Episode">>

\* C3: when every included track has zero duration, total_duration is 0 and
\* every relative_size, of a track and of a user, is 0 and none is NaN.
C3_ZeroGuard ==
    \A o \in Outputs :
        (\A j \in DOMAIN o.info.tracks : o.info.tracks[j].duration = 0) =>
            /\ o.info.total_duration = 0
            /\ \A j \in DOMAIN o.info.tracks :
                 /\ ~o.info.tracks[j].relative_size.nan
                 /\ o.info.tracks[j].relative_size = [nan |-> FALSE, num |-> 0, den |-> 1]
            /\ \A u \in DOMAIN o.info.users :
                 /\ ~o.info.users[u].relative_size.nan
                 /\ o.info.users[u].relative_size = [nan |-> FALSE, num |-> 0, den |-> 1]

\* C4: two calls of the aggregation on the same playlist, name map and now
\* return the same PlaylistInfo.
C4_Deterministic ==
    (out # None /\ prev # None /\ out[1] # None /\ prev[1] # None) =>
        out[1][1].info = prev[1][1].info

\* C5: the users are in non-decreasing order of total_duration, and the
\* tracks of each user's run are in non-decreasing order of duration.
C5_SortOrder ==
    \A o \in Outputs :
        /\ \A u, v \in DOMAIN o.info.users :
             u < v => o.info.users[u].total_duration <= o.info.users[v].total_duration
        /\ \A u \in DOMAIN o.info.users :
             \A i, j \in DOMAIN RunOf(o.info, u) :
                i < j => RunOf(o.info, u)[i].duration <= RunOf(o.info, u)[j].duration

\* C5's case: three users whose totals the playlist holds in another order
\* than ascending, or one user whose three tracks it holds out of order
C5_Witness ==
    \E o \in Outputs :
        \/ /\ Len(o.info.users) = 3
           /\ o.info.users[1].total_duration < o.info.users[2].total_duration
           /\ o.info.users[2].total_duration < o.info.users[3].total_duration
           /\ InputItems[o.info.tracks[1].name].name > InputItems[o.info.tracks[2].name].name
        \/ /\ Len(o.info.users) = 1
           /\ Len(o.info.tracks) = 3
           /\ o.info.tracks[1].duration < o.info.tracks[2].duration
           /\ o.info.tracks[2].duration < o.info.tracks[3].duration
           /\ o.info.tracks[1].name > o.info.tracks[3].name

\* C7: the name map is returned only when every lookup has completed, with
\* an answer or an error; it then holds exactly one entry per distinct
\* non-null contributor id of the playlist's items: the user's name when its
\* own lookup succeeded (the display name, or the id when there is none) and
\* the fallback string when its own lookup failed, whatever the other
\* lookups did; and no lookup makes the fetcher fail.
C7_NameResolution ==
    /\ raw_data # None =>
         LET items == raw_data[1].playlist.items
             names == raw_data[1].user_names
             ids   == {items[i].added_by[1] :
                          i \in {j \in DOMAIN items : items[j].added_by # <<>>}}
         IN  /\ DOMAIN lookups = ids
             /\ \A u \in ids : lookups[u] # <<>>
             /\ DOMAIN names = ids
             /\ \A u \in ids :
                  names[u] = (IF lookups[u][1].answer = "error" THEN "Faild to get user"
                              ELSE IF lookups[u][1].answer = "named" THEN "name of " \o u
                              ELSE u)
    /\ pc = "panicked" => failure # "none" /\ lookups = <<>>

\* C7's case: the map is returned after one lookup failed and the other
\* succeeded
C7_Witness ==
    /\ pc = "resolved"
    /\ raw_data # None
    /\ \E u, v \in DOMAIN lookups :
         /\ lookups[u][1].answer = "error"
         /\ lookups[v][1].answer = "named"
         /\ raw_data[1].user_names[u] = "Faild to get user"
         /\ raw_data[1].user_names[v] = "name of " \o v

\* C8: the included tracks with no added_by form one group, of the null
\* contributor, whose UserInfo is named "Unknown" and counts and sums exactly
\* those tracks; the playlist total counts them like any other track; and no
\* lookup is issued but for the ids that items name.
C8_UnknownContributor ==
    \A o \in Outputs :
        LET items == InputItems
            nulls == {i \in DOMAIN items :
                         items[i].track = <<"Track">> /\ items[i].added_by = <<>>}
        IN  nulls # {} =>
              /\ \A u \in DOMAIN lookups : \E i \in DOMAIN items : items[i].added_by = <<u>>
              /\ \E u \in DOMAIN o.info.users :
                   /\ o.keys[u] = <<>>
                   /\ o.info.users[u].name = "Unknown"
                   /\ o.info.users[u].amount_of_tracks = Cardinality(nulls)
                   /\ {RunOf(o.info, u)[j].name : j \in DOMAIN RunOf(o.info, u)} = nulls
                   /\ o.info.users[u].total_duration
                        = SumSeq([i \in DOMAIN items |->
                                     IF i \in nulls THEN items[i].duration ELSE 0])
              /\ o.info.total_duration
                   = SumSeq([i \in DOMAIN items |->
                                IF items[i].track = <<"Track">> THEN items[i].duration ELSE 0])

\* C9: when the playlist fetch has failed, on the id or on the request, the
\* program has not aborted, the resource holds no data and `data` returns None.
C9_FetchFailure ==
    failure # "none" =>
        /\ pc # "panicked"
        /\ raw_data = None
        /\ DataResults = {None}

\* C10: the age of a track is the whole days between its added_at and now over
\* 200, clamped to [0, 1], and 0 when added_at is absent: 1 and stale from 200
\* days on, 1/2 and not stale at 100 days, 0 for an added_at that is absent or
\* not in the past; a track is stale exactly when its age is over 99/100.
C10_Age ==
    \A o \in Outputs :
        \A j \in DOMAIN o.info.tracks :
            LET t    == o.info.tracks[j]
                item == InputItems[t.name]
            IN  /\ ~t.age.nan
                /\ Cobweb(t) <=> t.age.num * 100 > 99 * t.age.den
                /\ IF item.added_at = <<>>
                   THEN t.age = [nan |-> FALSE, num |-> 0, den |-> 1]
                   ELSE LET diff == now - item.added_at[1]
                            days == diff \div TicksPerDay
                        IN  /\ diff <= 0 => t.age = [nan |-> FALSE, num |-> 0, den |-> 1]
                            /\ diff >= 0 /\ days < 200 => t.age.num * 200 = days * t.age.den
                            /\ days >= 200 =>
                                 t.age = [nan |-> FALSE, num |-> 1, den |-> 1] /\ Cobweb(t)
                            /\ days = 100 =>
                                 t.age = [nan |-> FALSE, num |-> 1, den |-> 2] /\ ~Cobweb(t)

\* C10's case: a track added exactly 200 days before now, with age 1 and stale
C10_Witness ==
    \E o \in Outputs :
        \E j \in DOMAIN o.info.tracks :
            /\ InputItems[o.info.tracks[j].name].added_at = <<now - 200 * TicksPerDay>>
            /\ o.info.tracks[j].age.num = 1
            /\ o.info.tracks[j].age.den = 1
            /\ Cobweb(o.info.tracks[j])

\* C11: the persisted flow state changes only when a login click sets it to
\* RequestedUserAuthorization with the click's verifier, or when a Callback
\* that read RequestedUserAuthorization gets a token and sets it to GotToken
\* (and shows ""); it never goes from FirstVisit to GotToken; and a Callback
\* whose token exchange fails, or that read any other state, leaves it as it
\* was and shows /login.
C11_FlowTransitions ==
    /\ oauth_flow # last.before =>
         \/ /\ last.op = "login click"
            /\ oauth_flow = [kind |-> "RequestedUserAuthorization", verifier |-> logins]
         \/ /\ last.op = "callback token"
            /\ last.read = "RequestedUserAuthorization"
            /\ oauth_flow.kind = "GotToken"
    /\ last.op = "login click" => oauth_flow.kind = "RequestedUserAuthorization"
    /\ last.op = "callback token" =>
         /\ last.read = "RequestedUserAuthorization"
         /\ oauth_flow.kind = "GotToken"
         /\ route = ""
    /\ ~(last.before.kind = "FirstVisit" /\ oauth_flow.kind = "GotToken")
    /\ last.op \in {"callback failed", "callback refused"} =>
         /\ oauth_flow = last.before
         /\ route = "/login"
    /\ last.op = "callback refused" => last.before.kind # "RequestedUserAuthorization"
    /\ last.op = "callback failed" => last.read = "RequestedUserAuthorization"
    /\ \A i \in DOMAIN pending : pending[i].read = "RequestedUserAuthorization"

\* C11's case: after two login clicks, a Callback got its token and the flow
\* went from RequestedUserAuthorization to GotToken
C11_Witness ==
    /\ logins = 2
    /\ last.op = "callback token"
    /\ last.before.kind = "RequestedUserAuthorization"
    /\ oauth_flow.kind = "GotToken"
    /\ route = ""

====
